---- MODULE Spec2Model ----
(***************************************************************************)
(* State-machine model of the FactChecker control loops:                   *)
(*   ResearchAgentModule.forward  (search, select page, scrape, summarize) *)
(*   FireJudgeModule.forward      (bounded judgment rounds)                *)
(*   AggregatorModule.forward and FactCheckerPipeline.forward              *)
(* Texts are modelled as sequences of tokens, so that concatenation and    *)
(* joining are computed the way the code computes them.                    *)
(***************************************************************************)
EXTENDS Integers, Sequences, FiniteSets, TLC

\* ---------------------------------------------------------------- bounds
\* largest max_page_visits / max_iterations explored per specification
AgentMaxPageVisits == 3
JudgeMaxIterations == 3
JudgeMaxPageVisits == 1
\* largest max_iterations explored when only the rounds of the judge matter
RoundsMaxIterations == 3
PipeMaxIterations == 1
PipeMaxPageVisits == 1
MaxClaims == 2
\* standalone Aggregator: longest claim_verdicts list, number of forward calls
MaxVerdicts == 3
MaxRuns == 2
\* concurrent evaluation: largest max_page_visits of the shared program
ConcMaxPageVisits == 1
\* FirecrawlService.scrape on its own: longest page, largest max_length,
\* number of calls
MaxPageLength == 3
MaxLength == 3
MaxScrapeCalls == 1
\* batch evaluation: number of examples
MaxExamples == 3

\* ------------------------------------------- values of the external world
None == ""

Urls == {"u1", "u2"}

Queries == {"q1", "q2"}

Claims == {"c1", "c2"}

Statements == {"s1"}

Errors == {"timeout"}

\* worker threads of dspy.Evaluate
Threads == {"w1", "w2"}

Stances == {"supports", "refutes", "neutral", "mixed"}

Verdicts == {"supported", "not_supported", "refuted"}

OverallVerdicts == {"SUPPORTED", "CONTAINS_UNSUPPORTED_CLAIMS", "CONTAINS_REFUTED_CLAIMS"}

RelevantEvidence == {"facts"}

\* page texts, as sequences of characters
Pages == {<<"p", "a", "g", "e">>}

\* num_threads: int = 5 #firecrawl concurrency limit is 5
DefaultNumThreads == 5

FirecrawlLimitDefault == 5

\* num_threads=40  # firecrawl concurrency limit is 50
BenchmarkNumThreads == 40

FirecrawlLimitBenchmark == 50

\* default of the max_length parameter of FirecrawlService.scrape
DefaultMaxLength == 10000

VARIABLES
    max_page_visits,   \* ResearchAgentModule.max_page_visits
    max_iterations,    \* FireJudgeModule.max_iterations
    \* ---- ResearchAgentModule.forward frame
    apc,               \* position in forward
    aclaim,            \* parameter claim
    aquery,            \* parameter query
    search_results,    \* result of serper.search
    visited_urls,      \* list of selected URLs
    all_evidence,      \* list of evidence blocks
    page_iter,         \* number of loop iterations started
    selected_url,      \* selection.selected_url of the current iteration
    scraped,           \* ScrapedPage of the current iteration
    aresult,           \* returned evidence text
    atrace,            \* external calls made by this invocation, in order
    \* ---- FireJudgeModule.forward frame
    jpc,
    jclaim,
    evidence,
    search_history,
    iteration,
    next_search,
    jresult,
    judge_calls,       \* inputs and outputs of the Oracle judgment calls, in order
    research_calls,    \* queries handed to the Research Agent, in order
    research_results,  \* texts the Research Agent returned, in order
    \* ---- FactCheckerPipeline.forward frame
    ppc,
    statement,
    claims,            \* result.claims, the one field of the extractor's Prediction
    claim_iter,        \* what the for loop over that Prediction yields
    claim_results,
    aggregation,       \* Prediction returned by AggregatorModule.forward
    oracle_verdict,    \* overall_verdict as emitted by the aggregation Oracle
    presult,
    \* ---- AggregatorModule.forward called on its own
    agg_statement,     \* parameter original_statement
    agg_claim_verdicts,\* parameter claim_verdicts
    agg_oracle,        \* Oracle outputs of the calls made so far
    agg_runs,          \* Predictions returned by the calls made so far
    \* ---- dspy.Evaluate worker threads
    cur,               \* the thread that is executing
    frames,            \* the forward frames of the threads that are not
    \* ---- FirecrawlService.scrape called on its own
    sc_calls,          \* the calls made so far: arguments, outcome, result
    \* ---- batch evaluation (evaluate_program, run_evaluation)
    bpc,               \* position in the evaluating function
    evaluator,         \* which of the two functions is running
    bexamples,         \* the examples, in input order
    bresults,          \* predictions returned by dspy.Evaluate
    bfailed,           \* for each example run so far, whether the program raised
    predictions,       \* the list of predicted labels
    ground_truth,      \* the list of gold labels
    \* ---- the worker pool of dspy.Evaluate(num_threads=...)
    num_threads,       \* parameter num_threads of run_evaluation
    firecrawl_limit,   \* concurrent-request ceiling of the scrape provider
    workers            \* for each example: pending, running, scraping,
                       \* scraped, done

agentVars == <<apc, aclaim, aquery, search_results, visited_urls, all_evidence,
               page_iter, selected_url, scraped, aresult, atrace>>

judgeVars == <<jpc, jclaim, evidence, search_history, iteration, next_search,
               jresult, judge_calls, research_calls, research_results>>

pipeVars == <<ppc, statement, claims, claim_iter, claim_results,
              aggregation, oracle_verdict, presult>>

confVars == <<max_page_visits, max_iterations>>

aggVars == <<agg_statement, agg_claim_verdicts, agg_oracle, agg_runs>>

threadVars == <<cur, frames>>

poolVars == <<num_threads, firecrawl_limit, workers>>

toolVars == <<sc_calls, bpc, evaluator, bexamples, bresults, bfailed,
              predictions, ground_truth, poolVars>>

vars == <<confVars, agentVars, judgeVars, pipeVars, aggVars, threadVars,
          toolVars>>

\* ------------------------------------------------------------ text helpers
RECURSIVE Join(_, _)
Join(blocks, sep) ==
    IF Len(blocks) = 0 THEN <<>>
    ELSE IF Len(blocks) = 1 THEN blocks[1]
    ELSE blocks[1] \o <<sep>> \o Join(Tail(blocks), sep)

FailureBlock(url, error) == <<"[Failed to scrape ", url, ": ", error, "]">>

EvidenceBlock(url, stance, relevant) ==
    <<"Source: ", url, "\nStance: ", stance, "\nEvidence: ", relevant>>

NoSearchResults_Misworded == <<"No relevant evidence found.">>

NoSearchResults == <<"No search results found.">>

NoRelevantEvidence == <<"No relevant evidence found.">>

AgentOutput_LastOnly(blocks) ==
    IF Len(blocks) > 0 THEN blocks[Len(blocks)] ELSE NoRelevantEvidence

AgentOutput(blocks) ==
    IF Len(blocks) > 0 THEN Join(blocks, "\n\n") ELSE NoRelevantEvidence

\* One external call: what was called, on what, the outcome, and the text it
\* produced (error message or extracted evidence).
Call(op, arg, out, text) == [op |-> op, arg |-> arg, out |-> out, text |-> text]

CurrentEvidence_LastOnly(blocks) == IF Len(blocks) = 0 THEN <<>> ELSE blocks[Len(blocks)]

\* current_evidence="\n".join(all_evidence)
CurrentEvidence(blocks) == Join(blocks, "\n")

\* A page-selection call, with the visited_urls and current_evidence inputs it
\* was given.
SelectCall(url, out, visited, current) ==
    [op |-> "select", arg |-> url, out |-> out, text |-> None,
     visited_urls |-> visited, current_evidence |-> current]

\* Python truthiness of an Optional[str]: None and "" are both falsy.
Truthy(x) == x # None

\* ------------------------------------------------------ SerperService.search
Item(url) == [title |-> "title", link |-> url, snippet |-> "snippet"]

OrganicLists == {<<>>, <<Item("u1")>>, <<Item("u2"), Item("u1")>>}

\* What the endpoint answers: a 2xx body with its organic results, or an
\* error status, whose body has no "organic" entry.
SerperResponses ==
    [status : {200}, organic : OrganicLists]
        \cup {[status |-> 500, organic |-> <<>>]}

RaisesForStatus_Never(response) == FALSE

\* response.raise_for_status()
RaisesForStatus(response) == response.status >= 400

SerperSearch(organic) ==
    [i \in 1..Len(organic) |->
        [title |-> organic[i].title, link |-> organic[i].link,
         snippet |-> organic[i].snippet, position |-> i]]

\* --------------------------------------------------- FirecrawlService.scrape
\* outcome is what happens inside the try block: the URL cleaning or the
\* Firecrawl client raises (error text), or the client returns a document.
\* Every exception is caught inside scrape.  ScrapedPage.url and .title are
\* read by no caller and are left out of the record.
ScrapeOutcomes ==
    [ok : {TRUE}, markdown : Pages, error : {None}]
        \cup [ok : {FALSE}, markdown : {<<>>}, error : Errors]

TruncationMarker == "\n\n[Content truncated...]"

NeedsTruncation_AtLimit(markdown, max_length) == Len(markdown) >= max_length

\* if len(markdown) > max_length
NeedsTruncation(markdown, max_length) == Len(markdown) > max_length

FirecrawlScrape(url, max_length, outcome) ==
    IF outcome.ok
    THEN [markdown |->
             IF NeedsTruncation(outcome.markdown, max_length)
             THEN Append(SubSeq(outcome.markdown, 1, max_length),
                         TruncationMarker)
             ELSE outcome.markdown,
          success |-> TRUE, error |-> None]
    ELSE [markdown |-> <<>>, success |-> FALSE, error |-> outcome.error]

NoPage == [markdown |-> <<>>, success |-> FALSE, error |-> None]

\* Frames that are not running.
AgentIdle ==
    /\ search_results = <<>>
    /\ visited_urls = <<>>
    /\ all_evidence = <<>>
    /\ page_iter = 0
    /\ selected_url = None
    /\ scraped = NoPage
    /\ aresult = <<>>
    /\ atrace = <<>>

JudgeIdle ==
    /\ jpc = "idle"
    /\ jclaim = None
    /\ evidence = <<>>
    /\ search_history = <<>>
    /\ iteration = 0
    /\ next_search = None
    /\ jresult = <<>>
    /\ judge_calls = <<>>
    /\ research_calls = <<>>
    /\ research_results = <<>>

\* A frame is discarded when its function returns.
AgentPop ==
    /\ apc' = "idle"
    /\ aclaim' = None
    /\ aquery' = None
    /\ search_results' = <<>>
    /\ visited_urls' = <<>>
    /\ all_evidence' = <<>>
    /\ page_iter' = 0
    /\ selected_url' = None
    /\ scraped' = NoPage
    /\ aresult' = <<>>
    /\ atrace' = <<>>

JudgePop ==
    /\ jpc' = "idle"
    /\ jclaim' = None
    /\ evidence' = <<>>
    /\ search_history' = <<>>
    /\ iteration' = 0
    /\ next_search' = None
    /\ jresult' = <<>>
    /\ judge_calls' = <<>>
    /\ research_calls' = <<>>
    /\ research_results' = <<>>

AggregatorIdle ==
    /\ agg_statement = None
    /\ agg_claim_verdicts = <<>>
    /\ agg_oracle = <<>>
    /\ agg_runs = <<>>

SingleThread ==
    /\ cur = "w1"
    /\ frames = <<>>

\* no worker pool
PoolIdle ==
    /\ num_threads = 0
    /\ firecrawl_limit = 0
    /\ workers = <<>>

\* no scrape call and no batch evaluation under way
ToolsIdle ==
    /\ sc_calls = <<>>
    /\ bpc = "idle"
    /\ evaluator = None
    /\ bexamples = <<>>
    /\ bresults = <<>>
    /\ bfailed = <<>>
    /\ predictions = <<>>
    /\ ground_truth = <<>>
    /\ PoolIdle

PipelineIdle ==
    /\ AggregatorIdle
    /\ ppc = "idle"
    /\ statement = None
    /\ claims = <<>>
    /\ claim_iter = <<>>
    /\ claim_results = <<>>
    /\ aggregation = <<>>
    /\ oracle_verdict = None
    /\ presult = <<>>

\* ------------------------------------------------ ResearchAgentModule.forward
\* An exception leaving the Research Agent unwinds every enclosing frame:
\* neither FireJudgeModule.forward nor FactCheckerPipeline.forward has a
\* handler.
Unwind ==
    /\ jpc' = IF jpc = "research" THEN "raised" ELSE jpc
    /\ ppc' = IF ppc = "judge" /\ jpc = "research" THEN "raised" ELSE ppc

PageLoopRunning_OneMore(i, n) == i <= n

\* for _ in range(self.max_page_visits)
PageLoopRunning(i, n) == i < n

ScrapeFailed_Ignored(page) == FALSE

\* if not scraped.success
ScrapeFailed(page) == ~page.success

BudgetAfterFailure_Refunded(i) == i - 1

\* continue: the turn of the for loop spent on the failed fetch is not given
\* back
BudgetAfterFailure(i) == i

IsDecisive_SupportsOnly(stance) == stance = "supports"

\* if summary.evidence_stance in ["supports", "refutes"]
IsDecisive(stance) == stance \in {"supports", "refutes"}

AgentRaise ==
    /\ apc' = "raised"
    /\ Unwind
    /\ UNCHANGED <<jclaim, evidence, search_history, iteration, next_search,
                   jresult, judge_calls, research_calls, research_results>>
    /\ UNCHANGED <<statement, claims, claim_iter, claim_results, aggregation,
                   oracle_verdict, presult>>

AfterSearch_Retry(results) == IF Len(results) = 0 THEN "search" ELSE "select"

\* if not search_results: return ...; otherwise on to the page loop
AfterSearch(results) == IF Len(results) = 0 THEN "done" ELSE "select"

AgentSearch ==
    /\ apc = "search"
    /\ \/ \* requests.post raises: no response
          /\ atrace' = Append(atrace, Call("search", aquery, "raise", None))
          /\ AgentRaise
          /\ UNCHANGED <<aclaim, aquery, search_results, visited_urls,
                         all_evidence, page_iter, selected_url, scraped,
                         aresult>>
       \/ \E response \in SerperResponses :
          IF RaisesForStatus(response)
          THEN /\ atrace' = Append(atrace,
                               Call("search", aquery, "raise", None))
               /\ AgentRaise
               /\ UNCHANGED <<aclaim, aquery, search_results, visited_urls,
                              all_evidence, page_iter, selected_url, scraped,
                              aresult>>
          ELSE /\ search_results' = SerperSearch(response.organic)
               /\ atrace' = Append(atrace,
                               Call("search", aquery,
                                    IF response.status = 200 THEN "ok"
                                    ELSE "error status", None))
               /\ aresult' = IF Len(search_results') = 0
                             THEN NoSearchResults ELSE aresult
               /\ apc' = AfterSearch(search_results')
               /\ visited_urls' = <<>>
               /\ all_evidence' = <<>>
               /\ page_iter' = 0
               /\ UNCHANGED <<aclaim, aquery, selected_url, scraped>>
               /\ UNCHANGED <<judgeVars, pipeVars>>
    /\ UNCHANGED <<confVars, threadVars, toolVars, aggVars>>

AgentSelect ==
    /\ apc = "select"
    /\ PageLoopRunning(page_iter, max_page_visits)
    /\ \/ \* the page-selection Oracle call fails
          /\ atrace' = Append(atrace, SelectCall(None, "raise", visited_urls,
                                 CurrentEvidence(all_evidence)))
          /\ AgentRaise
          /\ UNCHANGED <<aclaim, aquery, search_results, visited_urls,
                         all_evidence, page_iter, selected_url, scraped,
                         aresult>>
       \/ \E url \in Urls \cup {None} :
          /\ page_iter' = page_iter + 1
          /\ selected_url' = url
          /\ atrace' = Append(atrace, SelectCall(url, "ok", visited_urls,
                                 CurrentEvidence(all_evidence)))
          /\ IF ~Truthy(url)
             THEN /\ apc' = "return"
                  /\ visited_urls' = visited_urls
             ELSE /\ apc' = "scrape"
                  /\ visited_urls' = Append(visited_urls, url)
          /\ UNCHANGED <<aclaim, aquery, search_results, all_evidence,
                         scraped, aresult>>
          /\ UNCHANGED <<judgeVars, pipeVars>>
    /\ UNCHANGED <<confVars, threadVars, toolVars, aggVars>>

AgentScrape ==
    /\ apc = "scrape"
    /\ \E outcome \in ScrapeOutcomes :
          /\ scraped' = FirecrawlScrape(selected_url, DefaultMaxLength, outcome)
          /\ atrace' = Append(atrace, Call("scrape", selected_url,
                                 IF scraped'.success THEN "ok" ELSE "fail",
                                 scraped'.error))
          /\ IF ScrapeFailed(scraped')
             THEN /\ all_evidence' = Append(all_evidence,
                          FailureBlock(selected_url, scraped'.error))
                  /\ page_iter' = BudgetAfterFailure(page_iter)
                  /\ apc' = "select"
             ELSE /\ all_evidence' = all_evidence
                  /\ page_iter' = page_iter
                  /\ apc' = "summarize"
    /\ UNCHANGED <<aclaim, aquery, search_results, visited_urls,
                   selected_url, aresult>>
    /\ UNCHANGED <<confVars, threadVars, toolVars, aggVars, judgeVars, pipeVars>>

AgentSummarize ==
    /\ apc = "summarize"
    /\ \/ \* the summarization Oracle call fails
          /\ atrace' = Append(atrace, Call("summarize", selected_url, "raise", None))
          /\ AgentRaise
          /\ UNCHANGED <<aclaim, aquery, search_results, visited_urls,
                         all_evidence, page_iter, selected_url, scraped,
                         aresult>>
       \/ \E stance \in Stances, relevant \in RelevantEvidence :
          /\ atrace' = Append(atrace, Call("summarize", selected_url, stance,
                                 relevant))
          /\ all_evidence' = Append(all_evidence,
                  EvidenceBlock(selected_url, stance, relevant))
          /\ apc' = IF IsDecisive(stance) THEN "return" ELSE "select"
          /\ UNCHANGED <<aclaim, aquery, search_results, visited_urls,
                         page_iter, selected_url, scraped, aresult>>
          /\ UNCHANGED <<judgeVars, pipeVars>>
    /\ UNCHANGED <<confVars, threadVars, toolVars, aggVars>>

AgentReturn ==
    /\ \/ apc = "return"
       \/ apc = "select" /\ ~PageLoopRunning(page_iter, max_page_visits)
    /\ aresult' = AgentOutput(all_evidence)
    /\ apc' = "done"
    /\ UNCHANGED <<aclaim, aquery, search_results, visited_urls, all_evidence,
                   page_iter, selected_url, scraped, atrace>>
    /\ UNCHANGED <<confVars, threadVars, toolVars, aggVars, judgeVars, pipeVars>>

NextAgent ==
    \/ AgentSearch
    \/ AgentSelect
    \/ AgentScrape
    \/ AgentSummarize
    \/ AgentReturn

\* ---------------------------------------------------- FireJudgeModule.forward
JudgmentResult_NoEvidence(claim, verdict, evidence_summary, search_queries, iterations) ==
    [claim |-> claim, verdict |-> verdict, evidence_summary |-> <<>>,
     search_queries |-> search_queries, iterations |-> iterations]

JudgmentResult(claim, verdict, evidence_summary, search_queries, iterations) ==
    [claim |-> claim, verdict |-> verdict,
     evidence_summary |-> evidence_summary,
     search_queries |-> search_queries, iterations |-> iterations]

SearchHeader_NoQuery(query) == <<"\n\n--- Search: ", " ---\n">>

\* f"\n\n--- Search: {result.next_search} ---\n"
SearchHeader(query) == <<"\n\n--- Search: ", query, " ---\n">>

JudgeOutputs == [verdict : Verdicts \cup {None}, next_search : Queries \cup {None}]

InHistory_LastOnly(query, history) ==
    Len(history) > 0 /\ history[Len(history)] = query

InHistory(query, history) == \E i \in 1..Len(history) : history[i] = query

JudgeLoopRunning_OneMore(i, n) == i <= n

\* for iteration in range(self.max_iterations)
JudgeLoopRunning(i, n) == i < n

IsNewQuery_NoDedup(query, history) == Truthy(query)

IsNewQuery_Always(query, history) == TRUE

\* if result.next_search and result.next_search not in search_history
IsNewQuery(query, history) == Truthy(query) /\ ~InHistory(query, history)

VerdictGiven_UnlessQuery(result) == Truthy(result.verdict) /\ ~Truthy(result.next_search)

\* if result.verdict:
VerdictGiven(result) == Truthy(result.verdict)

RecordQuery_Skipped(history, query) == history

\* search_history.append(result.next_search)
RecordQuery(history, query) == Append(history, query)

RoundsUsed_NotCounted(i) == i

\* iterations=iteration + 1
RoundsUsed(i) == i + 1

DefaultVerdict_Refuted == "refuted"

DefaultVerdict_Inconclusive == "inconclusive"

\* Exhausted iterations without verdict - default to not_supported
DefaultVerdict == "not_supported"

AppendEvidence_Overwrite(log, query, new_evidence) ==
    SearchHeader(query) \o new_evidence

\* evidence += f"\n\n--- Search: {result.next_search} ---\n{new_evidence}"
AppendEvidence(log, query, new_evidence) ==
    log \o SearchHeader(query) \o new_evidence

JudgeRaise_Swallowed ==
    /\ jpc' = "done"
    /\ ppc' = ppc
    /\ UNCHANGED <<statement, claims, claim_iter, claim_results, aggregation,
                   oracle_verdict, presult>>

JudgeRaise ==
    /\ jpc' = "raised"
    /\ ppc' = IF ppc = "judge" THEN "raised" ELSE ppc
    /\ UNCHANGED <<statement, claims, claim_iter, claim_results, aggregation,
                   oracle_verdict, presult>>

\* One round of the loop up to the point where the Research Agent is entered
\* (or the round ends without research).
JudgeRound ==
    /\ jpc = "judge"
    /\ JudgeLoopRunning(iteration, max_iterations)
    /\ \/ \* the Oracle judgment call fails
          /\ judge_calls' = Append(judge_calls,
                 [evidence |-> evidence, search_history |-> search_history,
                  verdict |-> "raise", next_search |-> None])
          /\ JudgeRaise
          /\ UNCHANGED <<jclaim, evidence, search_history, iteration,
                         next_search, jresult, research_calls,
                         research_results>>
          /\ UNCHANGED agentVars
       \/ \E result \in JudgeOutputs :
          /\ judge_calls' = Append(judge_calls,
                 [evidence |-> evidence, search_history |-> search_history,
                  verdict |-> result.verdict,
                  next_search |-> result.next_search])
          /\ IF VerdictGiven(result)
             THEN /\ jresult' = JudgmentResult(jclaim, result.verdict, evidence,
                                               search_history, RoundsUsed(iteration))
                  /\ jpc' = "done"
                  /\ UNCHANGED <<search_history, iteration, next_search,
                                 research_calls>>
                  /\ UNCHANGED agentVars
             ELSE IF IsNewQuery(result.next_search, search_history)
             THEN /\ search_history' = RecordQuery(search_history,
                                                   result.next_search)
                  /\ next_search' = result.next_search
                  /\ research_calls' = Append(research_calls, result.next_search)
                  /\ jpc' = "research"
                  \* enter ResearchAgentModule.forward(claim, query)
                  /\ apc' = "search"
                  /\ aclaim' = jclaim
                  /\ aquery' = result.next_search
                  /\ search_results' = <<>>
                  /\ visited_urls' = <<>>
                  /\ all_evidence' = <<>>
                  /\ page_iter' = 0
                  /\ selected_url' = None
                  /\ scraped' = NoPage
                  /\ aresult' = <<>>
                  /\ atrace' = <<>>
                  /\ UNCHANGED <<iteration, jresult>>
             ELSE /\ iteration' = iteration + 1
                  /\ jpc' = "judge"
                  /\ UNCHANGED <<search_history, next_search, jresult,
                                 research_calls>>
                  /\ UNCHANGED agentVars
          /\ UNCHANGED <<jclaim, evidence, research_results>>
          /\ UNCHANGED pipeVars
    /\ UNCHANGED <<confVars, threadVars, toolVars, aggVars>>

\* The Research Agent has returned: fold its evidence, end of the round.
JudgeFold ==
    /\ jpc = "research"
    /\ apc = "done"
    /\ evidence' = AppendEvidence(evidence, next_search, aresult)
    /\ research_results' = Append(research_results, aresult)
    /\ iteration' = iteration + 1
    /\ jpc' = "judge"
    \* the Research Agent's frame is gone
    /\ AgentPop
    /\ UNCHANGED <<jclaim, search_history, next_search, jresult, judge_calls,
                   research_calls>>
    /\ UNCHANGED <<confVars, threadVars, toolVars, aggVars, pipeVars>>

JudgeExhaust ==
    /\ jpc = "judge"
    /\ ~JudgeLoopRunning(iteration, max_iterations)
    /\ jresult' = JudgmentResult(jclaim, DefaultVerdict, evidence,
                                 search_history, max_iterations)
    /\ jpc' = "done"
    /\ UNCHANGED <<jclaim, evidence, search_history, iteration, next_search,
                   judge_calls, research_calls, research_results>>
    /\ UNCHANGED <<confVars, threadVars, toolVars, aggVars, agentVars, pipeVars>>

NextJudge ==
    \/ JudgeRound
    \/ JudgeFold
    \/ JudgeExhaust
    \/ NextAgent

\* --------------------------------------------------- AggregatorModule.forward
\* result is the output of the aggregation Oracle; the returned verdict is
\* result.overall_verdict.
AggregatorOutputs ==
    [overall_verdict : OverallVerdicts, confidence : {"0.9"},
     reasoning : {"reasoning"}]

AggregatorForward(original_statement, claim_verdicts, result) ==
    [verdict |-> result.overall_verdict,
     confidence |-> result.confidence,
     reasoning |-> result.reasoning,
     claim_details |-> claim_verdicts]

\* One call of AggregatorModule.forward on the given arguments.
AggregatorRun ==
    /\ Len(agg_runs) < MaxRuns
    /\ \E result \in AggregatorOutputs :
          /\ agg_oracle' = Append(agg_oracle, result)
          /\ agg_runs' = Append(agg_runs,
                 AggregatorForward(agg_statement, agg_claim_verdicts, result))
    /\ UNCHANGED <<agg_statement, agg_claim_verdicts>>
    /\ UNCHANGED <<confVars, threadVars, toolVars, agentVars, judgeVars, pipeVars>>

NextAggregator == AggregatorRun

\* ------------------------------------------------ FactCheckerPipeline.forward
ClaimLists == UNION {[1..n -> Claims] : n \in 0..MaxClaims}

ClaimVerdicts_NoEvidence(results) == [i \in 1..Len(results) |-> [claim |-> results[i].claim, verdict |-> results[i].verdict, evidence_summary |-> <<>>]]

\* claim_verdicts = [{"claim": r.claim, ...} for r in claim_results]
ClaimVerdicts(results) ==
    [i \in 1..Len(results) |->
        [claim |-> results[i].claim, verdict |-> results[i].verdict,
         evidence_summary |-> results[i].evidence_summary]]

FactCheckResult(stmt, cls, results, agg) ==
    [statement |-> stmt, claims |-> cls, claim_results |-> results,
     overall_verdict |-> agg.verdict, confidence |-> agg.confidence,
     reasoning |-> agg.reasoning]

\* ClaimExtractorModule.forward returns dspy.Prediction(claims=result.claims),
\* and the pipeline loops over that Prediction itself, not over its claims
\* field. What iterating a Prediction yields is decided by the dspy library:
\* the names of its fields (it iterates its store like a dict), or, read as
\* the list it wraps, the claims.
FieldNames == <<"claims">>

PredictionIter(cl) == {FieldNames, cl}

\* Step 1: the claim-extraction Oracle call.
PipelineExtract ==
    /\ ppc = "extract"
    /\ \/ /\ ppc' = "raised"
          /\ UNCHANGED <<claims, claim_iter>>
       \/ \E cl \in ClaimLists :
          /\ claims' = cl
          \* for claim in claims: iter() of the returned Prediction
          /\ claim_iter' \in PredictionIter(cl)
          /\ ppc' = "loop"
    /\ UNCHANGED <<statement, claim_results, aggregation, oracle_verdict,
                   presult>>
    /\ UNCHANGED <<confVars, threadVars, toolVars, aggVars, agentVars, judgeVars>>

NewSearchHistory_Carried(earlier) == IF earlier = <<>> THEN <<>> ELSE earlier[Len(earlier)].search_queries

\* search_history: list[str] = [], a local of forward; earlier are the
\* Judgments the same FireJudgeModule has returned before
NewSearchHistory(earlier) == <<>>

\* Step 2: enter fire_judge for the next claim.
PipelineJudge ==
    /\ ppc = "loop"
    /\ Len(claim_results) < Len(claim_iter)
    /\ ppc' = "judge"
    /\ jpc' = "judge"
    /\ jclaim' = claim_iter[Len(claim_results) + 1]
    /\ evidence' = <<>>
    /\ search_history' = NewSearchHistory(claim_results)
    /\ iteration' = 0
    /\ next_search' = None
    /\ jresult' = <<>>
    /\ judge_calls' = <<>>
    /\ research_calls' = <<>>
    /\ research_results' = <<>>
    /\ UNCHANGED <<statement, claims, claim_iter, claim_results, aggregation,
                   oracle_verdict, presult>>
    /\ UNCHANGED <<confVars, threadVars, toolVars, aggVars, agentVars>>

\* fire_judge has returned: claim_results.append(result).
PipelineCollect ==
    /\ ppc = "judge"
    /\ jpc = "done"
    /\ claim_results' = Append(claim_results, jresult)
    /\ ppc' = "loop"
    \* the Claim Judge's frame is gone
    /\ JudgePop
    /\ UNCHANGED <<statement, claims, claim_iter, aggregation, oracle_verdict, presult>>
    /\ UNCHANGED <<confVars, threadVars, toolVars, aggVars, agentVars>>

\* Step 3: build claim_verdicts, call the Aggregator, build the result.
PipelineAggregate ==
    /\ ppc = "loop"
    /\ Len(claim_results) >= Len(claim_iter)
    /\ \/ /\ ppc' = "raised"
          /\ UNCHANGED <<aggregation, oracle_verdict, presult>>
       \/ \E result \in AggregatorOutputs :
          /\ oracle_verdict' = result.overall_verdict
          /\ aggregation' = AggregatorForward(statement,
                                ClaimVerdicts(claim_results), result)
          /\ presult' = FactCheckResult(statement, claims, claim_results,
                                        aggregation')
          /\ ppc' = "done"
    /\ UNCHANGED <<statement, claims, claim_iter, claim_results>>
    /\ UNCHANGED <<confVars, threadVars, toolVars, aggVars, agentVars, judgeVars>>

Next ==
    \/ PipelineExtract
    \/ PipelineJudge
    \/ PipelineCollect
    \/ PipelineAggregate
    \/ NextJudge

\* One Research Agent invocation on its own.
InitAgent ==
    /\ max_page_visits \in 0..AgentMaxPageVisits
    /\ max_iterations = 1
    /\ apc = "search"
    /\ aclaim \in Claims
    /\ aquery \in Queries
    /\ AgentIdle
    /\ JudgeIdle
    /\ PipelineIdle
    /\ SingleThread
    /\ ToolsIdle

SpecAgent == InitAgent /\ [][NextAgent]_vars

\* One Claim Judge run on its own.
InitJudge ==
    /\ max_iterations \in 0..JudgeMaxIterations
    /\ max_page_visits \in 1..JudgeMaxPageVisits
    /\ apc = "idle"
    /\ aclaim = None
    /\ aquery = None
    /\ AgentIdle
    /\ jpc = "judge"
    /\ jclaim \in Claims
    /\ evidence = <<>>
    /\ search_history = <<>>
    /\ iteration = 0
    /\ next_search = None
    /\ jresult = <<>>
    /\ judge_calls = <<>>
    /\ research_calls = <<>>
    /\ research_results = <<>>
    /\ PipelineIdle
    /\ SingleThread
    /\ ToolsIdle

SpecJudge == InitJudge /\ [][NextJudge]_vars

\* The same run, for the properties of the judge's own loop: the Research
\* Agent is given one page visit, whatever the number of rounds.
InitJudgeRounds ==
    /\ max_iterations \in 0..RoundsMaxIterations
    /\ max_page_visits = 1
    /\ apc = "idle"
    /\ aclaim = None
    /\ aquery = None
    /\ AgentIdle
    /\ jpc = "judge"
    /\ jclaim \in Claims
    /\ evidence = <<>>
    /\ search_history = <<>>
    /\ iteration = 0
    /\ next_search = None
    /\ jresult = <<>>
    /\ judge_calls = <<>>
    /\ research_calls = <<>>
    /\ research_results = <<>>
    /\ PipelineIdle
    /\ SingleThread
    /\ ToolsIdle

SpecJudgeRounds == InitJudgeRounds /\ [][NextJudge]_vars

\* response = requests.post(self.BASE_URL, json=payload, headers=headers)
\* is issued without a timeout: when the provider never answers, the call
\* never returns and the invocation stays blocked in it.
SerperNeverResponds ==
    /\ apc = "search"
    /\ apc' = "blocked"
    /\ atrace' = Append(atrace, Call("search", aquery, "blocked", None))
    /\ UNCHANGED <<aclaim, aquery, search_results, visited_urls, all_evidence,
                   page_iter, selected_url, scraped, aresult>>
    /\ UNCHANGED <<confVars, threadVars, toolVars, aggVars, judgeVars, pipeVars>>

NextJudgeLive == NextJudge \/ SerperNeverResponds

\* A run that can take a step eventually takes one: the interpreter keeps
\* executing the run, and every call that is answered returns.
SpecJudgeLive == InitJudge /\ [][NextJudgeLive]_vars /\ WF_vars(NextJudgeLive)

\* ------------------------------------ FirecrawlService.scrape on its own
\* scrape(url, max_length) called with pages and limits small enough for the
\* truncation to happen.
PageChars == {"a", "b"}

PageTexts == UNION {[1..n -> PageChars] : n \in 0..MaxPageLength}

ScrapeInputs ==
    [ok : {TRUE}, markdown : PageTexts, error : {None}]
        \cup [ok : {FALSE}, markdown : {<<>>}, error : Errors]

ScrapeCall ==
    /\ Len(sc_calls) < MaxScrapeCalls
    /\ \E url \in Urls, max_length \in 0..MaxLength, outcome \in ScrapeInputs :
          sc_calls' = Append(sc_calls,
              [url |-> url, max_length |-> max_length, outcome |-> outcome,
               result |-> FirecrawlScrape(url, max_length, outcome)])
    /\ UNCHANGED <<bpc, evaluator, bexamples, bresults, bfailed, predictions,
                   ground_truth>>
    /\ UNCHANGED <<confVars, threadVars, agentVars, judgeVars, pipeVars,
                   aggVars, poolVars>>

NextScrape == ScrapeCall

InitScrape ==
    /\ max_iterations = 1
    /\ max_page_visits = 1
    /\ apc = "idle"
    /\ aclaim = None
    /\ aquery = None
    /\ AgentIdle
    /\ JudgeIdle
    /\ PipelineIdle
    /\ SingleThread
    /\ ToolsIdle

SpecScrape == InitScrape /\ [][NextScrape]_vars

\* ------------------------------------------------------ batch evaluation
\* evaluate_program (optimizer) loops over the examples itself; run_evaluation
\* hands them to dspy.Evaluate and reads the predictions back.
BatchEvaluators == {"evaluate_program", "run_evaluation"}

GoldLabels == {"true", "false"}

Examples == [statement : Statements, label : GoldLabels]

ExampleLists == UNION {[1..n -> Examples] : n \in 0..MaxExamples}

\* program(statement=...) returns a StatementResult or raises (the pipeline
\* catches nothing)
ProgramOutcomes == OverallVerdicts \cup {"raise"}

\* What dspy.Evaluate does with an example whose program call raised is the
\* library's choice: it records a prediction of its own without
\* overall_verdict, or None, or gives up and raises.
EvaluateOnError == {"empty", "none", "abort"}

\* pred.overall_verdict if hasattr(pred, 'overall_verdict') else str(pred)
LabelOf(pred) ==
    IF pred.kind = "result" THEN pred.overall_verdict
    ELSE IF pred.kind = "empty" THEN "Prediction()"
    ELSE "None"

\* one turn of evaluate_program's for loop
EvaluateProgramStep ==
    /\ evaluator = "evaluate_program"
    /\ bpc = "loop"
    /\ Len(predictions) < Len(bexamples)
    /\ LET ex == bexamples[Len(predictions) + 1]
       IN  \E outcome \in ProgramOutcomes :
              /\ predictions' = Append(predictions,
                     IF outcome = "raise" THEN "ERROR"
                     ELSE LabelOf([kind |-> "result",
                                   overall_verdict |-> outcome]))
              /\ bfailed' = Append(bfailed, outcome = "raise")
              /\ ground_truth' = Append(ground_truth, ex.label)
    /\ UNCHANGED <<sc_calls, bpc, evaluator, bexamples, bresults>>
    /\ UNCHANGED <<confVars, threadVars, agentVars, judgeVars, pipeVars,
                   aggVars, poolVars>>

\* the loop is over: calculate_metrics(predictions, ground_truth, ...)
EvaluateProgramDone ==
    /\ evaluator = "evaluate_program"
    /\ bpc = "loop"
    /\ Len(predictions) = Len(bexamples)
    /\ bpc' = "done"
    /\ UNCHANGED <<sc_calls, evaluator, bexamples, bresults, bfailed,
                   predictions, ground_truth>>
    /\ UNCHANGED <<confVars, threadVars, agentVars, judgeVars, pipeVars,
                   aggVars, poolVars>>

\* fc_result = evaluator(fact_checker), one example of the devset
DspyEvaluateStep ==
    /\ evaluator = "run_evaluation"
    /\ bpc = "evaluate"
    /\ Len(bresults) < Len(bexamples)
    /\ \E outcome \in ProgramOutcomes :
          IF outcome = "raise"
          THEN \E handling \in EvaluateOnError :
                  IF handling = "abort"
                  THEN /\ bpc' = "raised"
                       /\ UNCHANGED <<bresults, bfailed>>
                  ELSE /\ bresults' = Append(bresults,
                              [kind |-> handling, overall_verdict |-> None])
                       /\ bfailed' = Append(bfailed, TRUE)
                       /\ bpc' = bpc
          ELSE /\ bresults' = Append(bresults,
                      [kind |-> "result", overall_verdict |-> outcome])
               /\ bfailed' = Append(bfailed, FALSE)
               /\ bpc' = bpc
    /\ UNCHANGED <<sc_calls, evaluator, bexamples, predictions, ground_truth>>
    /\ UNCHANGED <<confVars, threadVars, agentVars, judgeVars, pipeVars,
                   aggVars, poolVars>>

\* fc_predictions = [... for _, pred, _ in fc_result.results];
\* ground_truth = [ex.label for ex in dataset]
RunEvaluationCollect ==
    /\ evaluator = "run_evaluation"
    /\ bpc = "evaluate"
    /\ Len(bresults) = Len(bexamples)
    /\ predictions' = [i \in 1..Len(bresults) |-> LabelOf(bresults[i])]
    /\ ground_truth' = [i \in 1..Len(bexamples) |-> bexamples[i].label]
    /\ bpc' = "done"
    /\ UNCHANGED <<sc_calls, evaluator, bexamples, bresults, bfailed>>
    /\ UNCHANGED <<confVars, threadVars, agentVars, judgeVars, pipeVars,
                   aggVars, poolVars>>

NextBatch ==
    \/ EvaluateProgramStep
    \/ EvaluateProgramDone
    \/ DspyEvaluateStep
    \/ RunEvaluationCollect

InitBatch ==
    /\ max_iterations = 1
    /\ max_page_visits = 1
    /\ apc = "idle"
    /\ aclaim = None
    /\ aquery = None
    /\ AgentIdle
    /\ JudgeIdle
    /\ PipelineIdle
    /\ SingleThread
    /\ sc_calls = <<>>
    /\ evaluator \in BatchEvaluators
    /\ bpc = IF evaluator = "evaluate_program" THEN "loop" ELSE "evaluate"
    /\ bexamples \in ExampleLists
    /\ bresults = <<>>
    /\ bfailed = <<>>
    /\ predictions = <<>>
    /\ ground_truth = <<>>
    /\ PoolIdle

SpecBatch == InitBatch /\ [][NextBatch]_vars

\* ------------------------------------------- the evaluation worker pool
\* run_evaluation hands the examples to dspy.Evaluate(num_threads=...), a pool
\* of num_threads workers. A worker runs the pipeline on one example at a
\* time, and the pipeline has at most one scrape request out at a time
\* (scraped = self.firecrawl.scrape(...) inside the sequential page loop).
\* num_threads is 5 by default and 40 in run_benchmark; the smaller values
\* stand for a caller's own choice. The provider's ceiling is not known to
\* the program: the two figures are the ones its comments give.
NumThreadsChoices == {1, 2, DefaultNumThreads, BenchmarkNumThreads}

FirecrawlLimits == {FirecrawlLimitDefault, FirecrawlLimitBenchmark}

PoolTasks == 1..MaxExamples

Active(w) ==
    Cardinality({i \in DOMAIN w : w[i] \in {"running", "scraping", "scraped"}})

InFlight(w) == Cardinality({i \in DOMAIN w : w[i] = "scraping"})

\* a pool of n workers takes the next example when one of them is free
PoolHasFreeWorker(active, n) == active < n

\* a free worker starts program(**example.inputs())
PoolStart ==
    \E i \in PoolTasks :
           /\ PoolHasFreeWorker(Active(workers), num_threads)
           /\ workers[i] = "pending"
           /\ workers' = [workers EXCEPT ![i] = "running"]
           /\ UNCHANGED <<num_threads, firecrawl_limit>>
           /\ UNCHANGED <<sc_calls, bpc, evaluator, bexamples, bresults,
                          bfailed, predictions, ground_truth>>
           /\ UNCHANGED <<confVars, threadVars, agentVars, judgeVars,
                          pipeVars, aggVars>>

\* the worker's pipeline sends a scrape request
PoolScrapeBegin ==
    \E i \in PoolTasks :
           /\ workers[i] \in {"running", "scraped"}
           /\ workers' = [workers EXCEPT ![i] = "scraping"]
           /\ UNCHANGED <<num_threads, firecrawl_limit>>
           /\ UNCHANGED <<sc_calls, bpc, evaluator, bexamples, bresults,
                          bfailed, predictions, ground_truth>>
           /\ UNCHANGED <<confVars, threadVars, agentVars, judgeVars,
                          pipeVars, aggVars>>

\* the scrape request returns
PoolScrapeEnd ==
    \E i \in PoolTasks :
           /\ workers[i] = "scraping"
           /\ workers' = [workers EXCEPT ![i] = "scraped"]
           /\ UNCHANGED <<num_threads, firecrawl_limit>>
           /\ UNCHANGED <<sc_calls, bpc, evaluator, bexamples, bresults,
                          bfailed, predictions, ground_truth>>
           /\ UNCHANGED <<confVars, threadVars, agentVars, judgeVars,
                          pipeVars, aggVars>>

\* the pipeline returns, the worker is free again
PoolFinish ==
    \E i \in PoolTasks :
           /\ workers[i] \in {"running", "scraped"}
           /\ workers' = [workers EXCEPT ![i] = "done"]
           /\ UNCHANGED <<num_threads, firecrawl_limit>>
           /\ UNCHANGED <<sc_calls, bpc, evaluator, bexamples, bresults,
                          bfailed, predictions, ground_truth>>
           /\ UNCHANGED <<confVars, threadVars, agentVars, judgeVars,
                          pipeVars, aggVars>>

NextPool ==
    \/ PoolStart
    \/ PoolScrapeBegin
    \/ PoolScrapeEnd
    \/ PoolFinish

InitPool ==
    /\ max_iterations = 1
    /\ max_page_visits = 1
    /\ apc = "idle"
    /\ aclaim = None
    /\ aquery = None
    /\ AgentIdle
    /\ JudgeIdle
    /\ PipelineIdle
    /\ SingleThread
    /\ sc_calls = <<>>
    /\ bpc = "idle"
    /\ evaluator = None
    /\ bexamples = <<>>
    /\ bresults = <<>>
    /\ bfailed = <<>>
    /\ predictions = <<>>
    /\ ground_truth = <<>>
    /\ num_threads \in NumThreadsChoices
    /\ firecrawl_limit \in FirecrawlLimits
    /\ workers = [i \in PoolTasks |-> "pending"]

SpecPool == InitPool /\ [][NextPool]_vars

\* ------------------------------------------------- concurrent evaluation
\* dspy.Evaluate(num_threads=...) calls one shared program from several
\* worker threads.  The modules keep their working data in the locals of
\* forward; the attributes of the shared instance (budgets, service handles,
\* predictors) are only read.  Each thread owns the frames of the forward
\* calls it is in; the frames of the threads that are not executing are kept
\* in frames, and a thread switch exchanges them.
\* the example each worker evaluates
ThreadClaim(t) == IF t = "w1" THEN "c1" ELSE "c2"

LiveFrame ==
    [apc |-> apc, aclaim |-> aclaim, aquery |-> aquery,
     search_results |-> search_results, visited_urls |-> visited_urls,
     all_evidence |-> all_evidence, page_iter |-> page_iter,
     selected_url |-> selected_url, scraped |-> scraped,
     aresult |-> aresult, atrace |-> atrace,
     jpc |-> jpc, jclaim |-> jclaim, evidence |-> evidence,
     search_history |-> search_history, iteration |-> iteration,
     next_search |-> next_search, jresult |-> jresult,
     judge_calls |-> judge_calls, research_calls |-> research_calls,
     research_results |-> research_results]

\* the frame of a thread entering FireJudgeModule.forward(claim)
StartFrame(claim) ==
    [apc |-> "idle", aclaim |-> None, aquery |-> None,
     search_results |-> <<>>, visited_urls |-> <<>>,
     all_evidence |-> <<>>, page_iter |-> 0,
     selected_url |-> None, scraped |-> NoPage,
     aresult |-> <<>>, atrace |-> <<>>,
     jpc |-> "judge", jclaim |-> claim, evidence |-> <<>>,
     search_history |-> <<>>, iteration |-> 0,
     next_search |-> None, jresult |-> <<>>,
     judge_calls |-> <<>>, research_calls |-> <<>>,
     research_results |-> <<>>]

\* slot of the executing thread in frames: its frame is the live one
Executing == [StartFrame(None) EXCEPT !.jpc = "idle"]

Restore_Shared(saved, live) == live

\* evidence = "" and search_history = [] are locals of forward: a thread that
\* resumes finds its own values, whatever the other threads did meanwhile.
Restore(saved, live) == saved

Switch(t) ==
    /\ t # cur
    /\ frames[t].jpc \notin {"idle", "done", "raised"}
    /\ cur' = t
    /\ frames' = [frames EXCEPT ![cur] = LiveFrame, ![t] = Executing]
    /\ apc' = frames[t].apc
    /\ aclaim' = frames[t].aclaim
    /\ aquery' = frames[t].aquery
    /\ search_results' = frames[t].search_results
    /\ visited_urls' = frames[t].visited_urls
    /\ all_evidence' = frames[t].all_evidence
    /\ page_iter' = frames[t].page_iter
    /\ selected_url' = frames[t].selected_url
    /\ scraped' = frames[t].scraped
    /\ aresult' = frames[t].aresult
    /\ atrace' = frames[t].atrace
    /\ jpc' = frames[t].jpc
    /\ jclaim' = frames[t].jclaim
    /\ evidence' = Restore(frames[t].evidence, evidence)
    /\ search_history' = Restore(frames[t].search_history, search_history)
    /\ iteration' = frames[t].iteration
    /\ next_search' = frames[t].next_search
    /\ jresult' = frames[t].jresult
    /\ judge_calls' = frames[t].judge_calls
    /\ research_calls' = frames[t].research_calls
    /\ research_results' = frames[t].research_results
    /\ UNCHANGED <<confVars, toolVars, pipeVars, aggVars>>

NextConcurrent ==
    \/ NextJudge
    \/ \E t \in Threads : Switch(t)

InitConcurrent ==
    \* one judgment round per run: two threads of two rounds each are beyond
    \* what can be enumerated
    /\ max_iterations = 1
    /\ max_page_visits \in 1..ConcMaxPageVisits
    /\ cur = "w1"
    /\ frames = [t \in Threads |->
                    IF t = "w1" THEN Executing ELSE StartFrame(ThreadClaim(t))]
    /\ apc = "idle"
    /\ aclaim = None
    /\ aquery = None
    /\ AgentIdle
    /\ jpc = "judge"
    /\ jclaim = ThreadClaim("w1")
    /\ evidence = <<>>
    /\ search_history = <<>>
    /\ iteration = 0
    /\ next_search = None
    /\ jresult = <<>>
    /\ judge_calls = <<>>
    /\ research_calls = <<>>
    /\ research_results = <<>>
    /\ PipelineIdle
    /\ ToolsIdle

SpecConcurrent == InitConcurrent /\ [][NextConcurrent]_vars

\* One Pipeline run: the state after FactCheckerPipeline.__init__ and the
\* entry into forward(statement).
Init ==
    /\ max_iterations \in 1..PipeMaxIterations
    /\ max_page_visits \in 1..PipeMaxPageVisits
    /\ apc = "idle"
    /\ aclaim = None
    /\ aquery = None
    /\ AgentIdle
    /\ JudgeIdle
    /\ AggregatorIdle
    /\ SingleThread
    /\ ToolsIdle
    /\ ppc = "extract"
    /\ statement \in Statements
    /\ claims = <<>>
    /\ claim_iter = <<>>
    /\ claim_results = <<>>
    /\ aggregation = <<>>
    /\ oracle_verdict = None
    /\ presult = <<>>

Spec == Init /\ [][Next]_vars

\* The pipeline with the budgets fixed at one round and one page
\* visit: what varies is the list of claims and what the calls return.
InitPipelineRuns ==
    /\ max_iterations = 1
    /\ max_page_visits = 1
    /\ apc = "idle"
    /\ aclaim = None
    /\ aquery = None
    /\ AgentIdle
    /\ JudgeIdle
    /\ AggregatorIdle
    /\ SingleThread
    /\ ToolsIdle
    /\ ppc = "extract"
    /\ statement \in Statements
    /\ claims = <<>>
    /\ claim_iter = <<>>
    /\ claim_results = <<>>
    /\ aggregation = <<>>
    /\ oracle_verdict = None
    /\ presult = <<>>

SpecPipelineRuns == InitPipelineRuns /\ [][Next]_vars

\* The Aggregator on its own: any list of claim verdict records as input.
ClaimVerdictRecords ==
    [claim : Claims, verdict : Verdicts, evidence_summary : {<<>>}]

InitAggregator ==
    /\ max_iterations = 1
    /\ max_page_visits = 1
    /\ apc = "idle"
    /\ aclaim = None
    /\ aquery = None
    /\ AgentIdle
    /\ JudgeIdle
    /\ ppc = "idle"
    /\ statement = None
    /\ claims = <<>>
    /\ claim_iter = <<>>
    /\ claim_results = <<>>
    /\ aggregation = <<>>
    /\ oracle_verdict = None
    /\ presult = <<>>
    /\ agg_statement \in Statements
    /\ agg_claim_verdicts \in
           UNION {[1..n -> ClaimVerdictRecords] : n \in 0..MaxVerdicts}
    /\ agg_oracle = <<>>
    /\ agg_runs = <<>>
    /\ SingleThread
    /\ ToolsIdle

SpecAggregator == InitAggregator /\ [][NextAggregator]_vars

\* ======================================================================
\* Properties
\* ======================================================================
HasVerdict(results, v) == \E i \in 1..Len(results) : results[i].verdict = v

AllVerdicts(results, v) == \A i \in 1..Len(results) : results[i].verdict = v

\* C1: when the Pipeline has returned and at least one Judgment is 'refuted',
\* the overall verdict of the aggregation and of the returned result is
\* CONTAINS_REFUTED_CLAIMS, whatever the aggregation Oracle answered.
C1_RefutedGivesContainsRefuted ==
    (ppc = "done" /\ HasVerdict(claim_results, "refuted"))
        => /\ aggregation.verdict = "CONTAINS_REFUTED_CLAIMS"
           /\ presult.overall_verdict = "CONTAINS_REFUTED_CLAIMS"

\* C2: every Aggregator call on a list with no 'refuted' and at least one
\* 'not_supported' verdict returns CONTAINS_UNSUPPORTED_CLAIMS.
C2_UnsupportedGivesContainsUnsupported ==
    (/\ ~HasVerdict(agg_claim_verdicts, "refuted")
     /\ HasVerdict(agg_claim_verdicts, "not_supported"))
        => \A k \in 1..Len(agg_runs) :
              agg_runs[k].verdict = "CONTAINS_UNSUPPORTED_CLAIMS"

\* C3: when the Pipeline has returned and every Judgment is 'supported'
\* (in particular when there is no claim and no Claim Judge run), the overall
\* verdict is SUPPORTED.
C3_AllSupportedGivesSupported ==
    (ppc = "done" /\ AllVerdicts(claim_results, "supported"))
        => /\ aggregation.verdict = "SUPPORTED"
           /\ presult.overall_verdict = "SUPPORTED"

\* C4: two Aggregator calls on the same list of Judgments return the same
\* overall verdict, whatever the aggregation Oracle answered in each.
C4_VerdictIndependentOfOracle ==
    \A i \in 1..Len(agg_runs) : \A j \in 1..Len(agg_runs) :
        agg_runs[i].verdict = agg_runs[j].verdict


NoDuplicates(seq) ==
    \A i \in 1..Len(seq) : \A j \in 1..Len(seq) : seq[i] = seq[j] => i = j

CountOp(trace, op) == Cardinality({i \in 1..Len(trace) : trace[i].op = op})

IsSuffix(s, t) ==
    /\ Len(s) <= Len(t)
    /\ SubSeq(t, Len(t) - Len(s) + 1, Len(t)) = s

\* C5: in one Claim Judge run the number of Oracle judgment calls (failed
\* calls included) never exceeds max_iterations.
C5_JudgeCallsBounded == Len(judge_calls) <= max_iterations

\* a run that used its whole budget of at least two rounds, with research
C5_Witness ==
    /\ jpc = "done"
    /\ max_iterations >= 2
    /\ Len(judge_calls) = max_iterations
    /\ Len(research_calls) >= 1

\* a judgment call that returned no verdict and suggested a query that was
\* already in the search history it was given
RepeatedSuggestion(call) ==
    /\ call.verdict = None
    /\ call.next_search # None
    /\ InHistory(call.next_search, call.search_history)

\* C6: in one Claim Judge run the Research Agent is never invoked twice with
\* the same query and SearchHistory never holds a duplicate; a round in which
\* the Oracle repeats a query of SearchHistory issues no search.
C6_NoRepeatedQuery ==
    /\ NoDuplicates(search_history)
    /\ NoDuplicates(research_calls)
    /\ research_calls = search_history
    /\ \A k \in 1..Len(judge_calls) :
          RepeatedSuggestion(judge_calls[k])
              => /\ Len(research_calls) >= Len(judge_calls[k].search_history)
                 /\ k < Len(judge_calls)
                      => judge_calls[k + 1].search_history
                            = judge_calls[k].search_history
                 /\ k = Len(judge_calls) /\ jpc # "raised"
                      => search_history = judge_calls[k].search_history

\* the Oracle repeated an already issued query and the run went on to its end
C6_Witness ==
    /\ jpc = "done"
    /\ \E k \in 1..Len(judge_calls) :
          /\ RepeatedSuggestion(judge_calls[k])
          /\ k < Len(judge_calls)

\* C7: in one Research Agent invocation the number of page fetches never
\* exceeds max_page_visits.
C7_PageFetchesBounded == CountOp(atrace, "scrape") <= max_page_visits

\* an invocation that spent a budget of at least two page visits
C7_Witness ==
    /\ apc = "done"
    /\ max_page_visits >= 2
    /\ CountOp(atrace, "scrape") = max_page_visits

\* C8: in one Research Agent invocation no URL is fetched twice, whatever the
\* page-selection Oracle returns.
C8_NoUrlFetchedTwice ==
    \A i \in 1..Len(atrace) : \A j \in 1..Len(atrace) :
        (/\ atrace[i].op = "scrape"
         /\ atrace[j].op = "scrape"
         /\ atrace[i].arg = atrace[j].arg) => i = j

DecisiveSummary(call) ==
    call.op = "summarize" /\ call.out \in {"supports", "refutes"}

\* C9: once a page has been summarized with stance 'supports' or 'refutes',
\* the Research Agent makes no further page-selection, fetch or summarization
\* call, and the block of that page is the last block of the output.
C9_StopsOnDecisiveStance ==
    \A i \in 1..Len(atrace) :
        DecisiveSummary(atrace[i])
            => /\ i = Len(atrace)
               /\ apc \in {"return", "done"}
               /\ Len(all_evidence) > 0
               /\ all_evidence[Len(all_evidence)]
                     = EvidenceBlock(atrace[i].arg, atrace[i].out, atrace[i].text)
               /\ apc = "done"
                     => IsSuffix(EvidenceBlock(atrace[i].arg, atrace[i].out,
                                               atrace[i].text), aresult)

\* the invocation returned after a decisive page with page visits to spare
C9_Witness ==
    /\ apc = "done"
    /\ Len(atrace) > 0
    /\ DecisiveSummary(atrace[Len(atrace)])
    /\ page_iter < max_page_visits

FailedScrape(call) == call.op = "scrape" /\ call.out = "fail"

\* number of evidence blocks the calls trace[1..i] have produced
BlocksUpTo(trace, i) ==
    Cardinality({k \in 1..i :
        \/ FailedScrape(trace[k])
        \/ trace[k].op = "summarize" /\ trace[k].out # "raise"})

\* C10: a failed page fetch appends the failure-tagged entry naming the URL
\* and the reason, raises nothing, is not followed by a summarization call for
\* that page, and the loop goes on: the next call, if any, is a page
\* selection, and the run ends there only when the page budget is spent.
C10_FetchFailureRecorded ==
    \A i \in 1..Len(atrace) :
        FailedScrape(atrace[i])
            => /\ BlocksUpTo(atrace, i) <= Len(all_evidence)
               /\ all_evidence[BlocksUpTo(atrace, i)]
                     = FailureBlock(atrace[i].arg, atrace[i].text)
               /\ atrace[i].text \in Errors
               /\ CountOp(SubSeq(atrace, 1, i), "summarize")
                     = CountOp(SubSeq(atrace, 1, i), "scrape")
                          - Cardinality({k \in 1..i : FailedScrape(atrace[k])})
               /\ IF i < Len(atrace)
                  THEN atrace[i + 1].op = "select"
                  ELSE /\ apc \in {"select", "done"}
                       /\ apc = "done" => page_iter >= max_page_visits

\* a fetch failed and the next iteration selected and fetched another page
C10_Witness ==
    /\ apc = "done"
    /\ \E i \in 1..Len(atrace) :
          /\ FailedScrape(atrace[i])
          /\ i + 1 < Len(atrace)
          /\ atrace[i + 1].op = "select"
          /\ atrace[i + 2].op = "scrape"

ProviderCall(call) == call.op \in {"search", "scrape"}

\* C11: a failing provider call (search or page fetch) never makes the
\* Research Agent raise: whenever the last call made is a provider call, the
\* invocation has not been left by an exception.
C11_NoProviderFailureEscapes ==
    (Len(atrace) > 0 /\ ProviderCall(atrace[Len(atrace)])) => apc # "raised"

\* C12: a failure inside one claim's Claim Judge run does not leave the
\* Pipeline by an exception, and a returned result has one entry per claim
\* the loop went through.
C12_ClaimFailureIsolated ==
    /\ jpc = "raised" => ppc # "raised"
    /\ ppc = "done" => Len(presult.claim_results) = Len(claim_iter)

NoVerdictGiven == \A k \in 1..Len(judge_calls) : judge_calls[k].verdict = None

\* C13: a Claim Judge run that ends without any verdict from the Oracle has
\* used max_iterations rounds and returns verdict 'not_supported' with
\* iterations equal to max_iterations.
C13_ExhaustionGivesNotSupported ==
    (jpc = "done" /\ NoVerdictGiven)
        => /\ jresult.verdict = "not_supported"
           /\ jresult.iterations = max_iterations
           /\ Len(judge_calls) = max_iterations

\* three or more rounds, the Oracle never giving a verdict nor a query
C13_Witness ==
    /\ jpc = "done"
    /\ max_iterations >= 3
    /\ \A k \in 1..Len(judge_calls) :
          judge_calls[k].verdict = None /\ judge_calls[k].next_search = None

\* C14: a verdict returned by the Oracle in round k ends the run at once: it
\* is the last judgment call, the Judgment carries exactly that verdict and
\* iterations = k, and no Research Agent invocation follows.
C14_VerdictTerminatesRun ==
    \A k \in 1..Len(judge_calls) :
        judge_calls[k].verdict \in Verdicts
            => /\ k = Len(judge_calls)
               /\ jpc = "done"
               /\ jresult.verdict = judge_calls[k].verdict
               /\ jresult.iterations = k
               /\ research_calls = judge_calls[k].search_history
               /\ apc = "idle"

\* a verdict in a round after the first, with rounds to spare
C14_Witness ==
    /\ jpc = "done"
    /\ Len(judge_calls) >= 2
    /\ Len(judge_calls) < max_iterations
    /\ judge_calls[Len(judge_calls)].verdict \in Verdicts
    /\ Len(research_calls) >= 1

\* C15: round 1 gives no verdict and a new query q, the Research Agent
\* returns, round 2 gives verdict v: the Judgment has verdict v, iterations 2,
\* search_queries = [q] and an evidence_summary made of the block tagged q.
C15_TwoRoundScenario ==
    (/\ jpc = "done"
     /\ Len(judge_calls) = 2
     /\ judge_calls[1].verdict = None
     /\ judge_calls[1].next_search # None
     /\ judge_calls[2].verdict \in Verdicts)
        => /\ jresult.verdict = judge_calls[2].verdict
           /\ jresult.iterations = 2
           /\ jresult.search_queries = <<judge_calls[1].next_search>>
           /\ Len(research_results) = 1
           /\ jresult.evidence_summary
                 = <<"\n\n--- Search: ", judge_calls[1].next_search, " ---\n">>
                      \o research_results[1]

\* the instance: budget 3 rounds and 1 page, query q1, one page visit with
\* stance 'supports', verdict 'supported' in round 2
C15_Witness ==
    /\ jpc = "done"
    /\ max_iterations = 3
    /\ max_page_visits = 1
    /\ jresult.verdict = "supported"
    /\ jresult.iterations = 2
    /\ jresult.search_queries = <<"q1">>
    /\ research_results
          = << <<"Source: ", "u1", "\nStance: ", "supports",
                 "\nEvidence: ", "facts">> >>

\* C16: when the search returns zero results the Research Agent returns
\* exactly 'No search results found.' after that single call, no page is
\* selected, fetched or summarized, and the enclosing Claim Judge run goes on
\* and ends within max_iterations rounds.
C16_ZeroResultsSentinel ==
    /\ (apc = "done" /\ Len(search_results) = 0)
          => /\ aresult = <<"No search results found.">>
             /\ Len(atrace) = 1
             /\ atrace[1].op = "search"
             /\ jpc = "research"
    /\ apc \in {"select", "scrape", "summarize", "return"}
          => Len(search_results) > 0
    /\ (\E i \in 1..Len(research_results) :
            research_results[i] = <<"No search results found.">>)
          => /\ iteration <= max_iterations
             /\ Len(judge_calls) <= max_iterations
             /\ jpc = "done" => jresult.iterations <= max_iterations

\* the only search of the run returned zero results and the run completed
C16_Witness ==
    /\ jpc = "done"
    /\ research_results = << <<"No search results found.">> >>

\* C17: every Judgment returned by a Claim Judge run has a verdict that is one
\* of supported, not_supported, refuted.
C17_VerdictInEnum ==
    jpc = "done" => jresult.verdict \in {"supported", "not_supported", "refuted"}

\* a Judgment produced by exhaustion after research
C17_Witness ==
    /\ jpc = "done"
    /\ NoVerdictGiven
    /\ Len(research_results) >= 1

\* C18: every Claim Judge run ends, with a Judgment or a reported failure, and
\* every Research Agent invocation it makes returns or fails, even when an
\* external call never responds.
C18_RunTerminates ==
    <>(jpc \in {"done", "raised"} /\ apc \in {"idle", "raised"})

\* The queries a run has researched after its first k judgment responses:
\* the non-empty suggestions of the rounds without verdict, first occurrences
\* only.
RECURSIVE QueriesAfter(_)
QueriesAfter(k) ==
    IF k = 0 THEN <<>>
    ELSE LET prev == QueriesAfter(k - 1)
             r == judge_calls[k]
         IN  IF /\ r.verdict = None
                /\ r.next_search # None
                /\ \A i \in 1..Len(prev) : prev[i] # r.next_search
             THEN Append(prev, r.next_search)
             ELSE prev

\* The evidence text built from the first n researched queries and their
\* research responses.
RECURSIVE EvidenceAfter(_)
EvidenceAfter(n) ==
    IF n = 0 THEN <<>>
    ELSE EvidenceAfter(n - 1)
            \o <<"\n\n--- Search: ", research_calls[n], " ---\n">>
            \o research_results[n]

\* The text an invocation returns, from the responses it received.
RECURSIVE BlocksOf(_)
BlocksOf(trace) ==
    IF Len(trace) = 0 THEN <<>>
    ELSE LET c == trace[Len(trace)]
             before == BlocksOf(SubSeq(trace, 1, Len(trace) - 1))
         IN  IF c.op = "scrape" /\ c.out = "fail"
             THEN Append(before, <<"[Failed to scrape ", c.arg, ": ", c.text, "]">>)
             ELSE IF c.op = "summarize" /\ c.out # "raise"
             THEN Append(before, <<"Source: ", c.arg, "\nStance: ", c.out,
                                   "\nEvidence: ", c.text>>)
             ELSE before

\* C19: a Claim Judge run is a function of the responses it receives: the
\* inputs of every judgment call, the queries researched, the text every
\* Research Agent invocation returns and the final Judgment are all determined
\* by the claim, the budgets and the sequence of responses, so two runs given
\* the same responses make the same calls and return identical Judgments.
C19_RunDeterminedByResponses ==
    LET n == Len(judge_calls)
        last == judge_calls[n]
    IN  \* the Research Agent has returned: its text, from its responses
        /\ apc = "done"
              => aresult = IF Len(search_results) = 0
                           THEN <<"No search results found.">>
                           ELSE IF Len(BlocksOf(atrace)) = 0
                           THEN <<"No relevant evidence found.">>
                           ELSE Join(BlocksOf(atrace), "\n\n")
        \* the Claim Judge is not waiting for the Research Agent: its calls
        /\ jpc # "research"
              => /\ research_calls = QueriesAfter(n)
                 /\ Len(research_results) <= Len(research_calls)
                 /\ \A k \in 1..n :
                       /\ judge_calls[k].search_history = QueriesAfter(k - 1)
                       /\ judge_calls[k].evidence
                             = EvidenceAfter(Len(judge_calls[k].search_history))
                       /\ k < n => judge_calls[k].verdict = None
        \* the run has returned: its Judgment
        /\ jpc = "done"
              => /\ Len(research_results) = Len(research_calls)
                 /\ n = 0 => max_iterations = 0
                 /\ jresult =
                      [claim |-> jclaim,
                       verdict |-> IF n > 0 /\ last.verdict # None
                                   THEN last.verdict ELSE "not_supported",
                       evidence_summary |-> EvidenceAfter(Len(research_results)),
                       search_queries |-> research_calls,
                       iterations |-> IF n > 0 /\ last.verdict # None
                                      THEN n ELSE max_iterations]

\* three rounds: two researched queries, then a repeated suggestion that is
\* not researched again, ending by exhaustion
C19_Witness ==
    /\ jpc = "done"
    /\ Len(judge_calls) = 3
    /\ Len(research_results) = 2
    /\ judge_calls[3].verdict = None
    /\ judge_calls[3].next_search = judge_calls[1].next_search

\* The frame of thread t, executing or not.
FrameOf(t) == IF t = cur THEN LiveFrame ELSE frames[t]

\* What a sequential evaluation computes from the responses a run received:
\* the queries researched after k judgment responses, the evidence text after
\* n research responses, and the Judgment.
RECURSIVE QueriesOf(_, _)
QueriesOf(calls, k) ==
    IF k = 0 THEN <<>>
    ELSE LET prev == QueriesOf(calls, k - 1)
         IN  IF /\ calls[k].verdict = None
                /\ calls[k].next_search # None
                /\ \A i \in 1..Len(prev) : prev[i] # calls[k].next_search
             THEN Append(prev, calls[k].next_search)
             ELSE prev

RECURSIVE EvidenceOf(_, _, _)
EvidenceOf(queries, results, n) ==
    IF n = 0 THEN <<>>
    ELSE EvidenceOf(queries, results, n - 1)
            \o <<"\n\n--- Search: ", queries[n], " ---\n">> \o results[n]

SequentialJudgment(claim, calls, results) ==
    LET n == Len(calls)
        decided == n > 0 /\ calls[n].verdict # None
    IN  [claim |-> claim,
         verdict |-> IF decided THEN calls[n].verdict ELSE "not_supported",
         evidence_summary |-> EvidenceOf(QueriesOf(calls, n), results,
                                         Len(results)),
         search_queries |-> QueriesOf(calls, n),
         iterations |-> IF decided THEN n ELSE max_iterations]

\* C20: runs evaluated concurrently on the shared program share no mutable
\* state.  Under every interleaving, each thread's search history and evidence
\* are made of the queries and research results of its own run only, every
\* judgment call of a run sees exactly that, the Research Agent works for the
\* run's own claim, and each Judgment equals the one a sequential evaluation
\* computes from the same responses.
C20_RunsShareNoState ==
    \A t \in Threads :
        LET F == FrameOf(t)
            n == Len(F.judge_calls)
            queries == QueriesOf(F.judge_calls, n)
        IN  /\ F.jclaim = ThreadClaim(t)
            /\ F.apc # "idle"
                  => /\ F.aclaim = ThreadClaim(t)
                     /\ F.aquery = F.research_calls[Len(F.research_calls)]
            /\ F.search_history = queries
            /\ F.research_calls = queries
            /\ Len(F.research_results) <= Len(queries)
            /\ F.evidence = EvidenceOf(queries, F.research_results,
                                       Len(F.research_results))
            /\ \A k \in 1..n :
                  /\ F.judge_calls[k].search_history
                        = QueriesOf(F.judge_calls, k - 1)
                  /\ F.judge_calls[k].evidence
                        = EvidenceOf(queries, F.research_results,
                                     Len(QueriesOf(F.judge_calls, k - 1)))
            /\ F.jpc = "done"
                  => F.jresult = SequentialJudgment(F.jclaim, F.judge_calls,
                                                    F.research_results)

\* thread w1 finished its run, with research done, after thread w2 had got
\* as far as summarizing a page for a different query
C20_Witness ==
    /\ cur = "w1"
    /\ jpc = "done"
    /\ Len(research_results) = 1
    /\ frames["w2"].jpc = "research"
    /\ frames["w2"].apc = "summarize"
    /\ frames["w2"].aquery # research_calls[1]

IsPrefix(s, t) == Len(s) <= Len(t) /\ SubSeq(t, 1, Len(s)) = s

\* C21: a round in which the Oracle returns no verdict and no usable new query
\* (none, or one already in the search history) leaves evidence and search
\* history unchanged and invokes no Research Agent: only the round counter
\* advances.
C21_StalledRoundKeepsState ==
    [][(/\ Len(judge_calls') = Len(judge_calls) + 1
        /\ LET c == judge_calls'[Len(judge_calls')]
           IN  /\ c.verdict = None
               /\ \/ c.next_search = None
                  \/ \E i \in 1..Len(search_history) :
                        search_history[i] = c.next_search)
       => /\ evidence' = evidence
          /\ search_history' = search_history
          /\ research_calls' = research_calls
          /\ apc' = "idle"
          /\ jpc' = "judge"
          /\ iteration' = iteration + 1]_vars

\* a round repeated an already researched query and the run went on to its end
C21_Witness ==
    /\ jpc = "done"
    /\ Len(judge_calls) = 3
    /\ judge_calls[2].verdict = None
    /\ judge_calls[2].next_search = judge_calls[1].next_search
    /\ judge_calls[2].search_history = <<judge_calls[1].next_search>>
    /\ judge_calls[3].evidence = judge_calls[2].evidence
    /\ judge_calls[3].search_history = judge_calls[2].search_history

\* C22: the evidence and the search history of a run only grow by appending:
\* what a judgment call was given is a prefix of what the next call is given,
\* of the current evidence and history, and of the returned Judgment's
\* evidence_summary and search_queries.
C22_EvidenceAppendOnly ==
    /\ \A k \in 1..Len(judge_calls) :
          LET later == IF k < Len(judge_calls)
                       THEN judge_calls[k + 1]
                       ELSE [evidence |-> evidence,
                             search_history |-> search_history]
          IN  /\ IsPrefix(judge_calls[k].evidence, later.evidence)
              /\ IsPrefix(judge_calls[k].search_history, later.search_history)
    /\ jpc = "done"
          => /\ jresult.evidence_summary = evidence
             /\ jresult.search_queries = search_history

\* two researches done: the evidence given to the third call extends the
\* evidence given to the second, which extends the empty evidence of the first
C22_Witness ==
    /\ jpc = "done"
    /\ Len(judge_calls) = 3
    /\ Len(research_results) = 2
    /\ Len(judge_calls[2].evidence) > 0
    /\ Len(judge_calls[3].evidence) > Len(judge_calls[2].evidence)
    /\ jresult.evidence_summary = judge_calls[3].evidence

\* C23: a Judgment is built from the claim, the verdict, the evidence and the
\* search history alone, with the same fields, whether the run ended by
\* exhaustion or by a verdict of the Oracle: an exhaustion Judgment equals the
\* Judgment of a run concluded with 'not_supported' on the same evidence and
\* history in every field but iterations.
C23_ExhaustionLooksConcluded ==
    jpc = "done"
        => /\ DOMAIN jresult = {"claim", "verdict", "evidence_summary",
                                "search_queries", "iterations"}
           /\ [jresult EXCEPT !.iterations = 0]
                 = [claim |-> jclaim,
                    verdict |-> IF NoVerdictGiven THEN "not_supported"
                                ELSE judge_calls[Len(judge_calls)].verdict,
                    evidence_summary |-> evidence,
                    search_queries |-> search_history,
                    iterations |-> 0]

\* a run ended by exhaustion with evidence gathered
C23_Witness ==
    /\ jpc = "done"
    /\ NoVerdictGiven
    /\ jresult.verdict = "not_supported"
    /\ Len(jresult.evidence_summary) > 0
    /\ Len(jresult.search_queries) = 2

\* C28: an error of the Oracle judgment call or of the Research Agent leaves
\* the Claim Judge run by that error: the run is over and has returned no
\* Judgment.
C28_JudgeErrorsPropagate ==
    (\/ Len(judge_calls) > 0 /\ judge_calls[Len(judge_calls)].verdict = "raise"
     \/ apc = "raised")
        => /\ jpc = "raised"
           /\ jresult = <<>>

\* the Research Agent failed in the second round of a run
C28_Witness ==
    /\ apc = "raised"
    /\ jpc = "raised"
    /\ Len(judge_calls) = 2
    /\ Len(research_results) = 1

\* C24: the claim-extraction step never ends in an error: a failing
\* extraction Oracle call gives an empty claim list and the Pipeline goes on.
C24_ExtractionNeverFails ==
    [][ppc = "extract" => ppc' = "loop"]_vars

\* C26: an invocation of the Research Agent calls the search provider exactly
\* once, as its first call, before any page selection, whatever happens in
\* the page loop.
C26_SearchOnceFirst ==
    /\ apc = "search" => atrace = <<>>
    /\ apc # "search"
          => /\ Len(atrace) >= 1
             /\ atrace[1].op = "search"
             /\ \A i \in 2..Len(atrace) : atrace[i].op # "search"

\* an invocation that went twice round the page loop, a failed fetch included
C26_Witness ==
    /\ apc = "done"
    /\ Len(atrace) >= 6
    /\ \E i \in 1..Len(atrace) : atrace[i].op = "scrape" /\ atrace[i].out = "fail"

\* C27: the text returned by the Research Agent is the blocks accumulated in
\* the run, failure notes included, in visit order and joined by blank lines;
\* it is 'No relevant evidence found.' exactly when the search returned
\* results and no block was accumulated, which is exactly when the budget
\* is 0 pages or the first page selection returned no URL.
C27_OutputIsAllBlocks ==
    apc = "done" /\ Len(search_results) > 0
        => /\ all_evidence = BlocksOf(atrace)
           /\ aresult = IF Len(all_evidence) = 0
                        THEN <<"No relevant evidence found.">>
                        ELSE Join(all_evidence, "\n\n")
           /\ (aresult = <<"No relevant evidence found.">>)
                 <=> (\/ max_page_visits = 0
                      \/ /\ Len(atrace) = 2
                         /\ atrace[2].op = "select"
                         /\ atrace[2].arg = None)

\* two blocks, the first one a failure note
C27_Witness ==
    /\ apc = "done"
    /\ Len(all_evidence) = 2
    /\ all_evidence[1] = <<"[Failed to scrape ", "u1", ": ", "timeout", "]">>
    /\ aresult = all_evidence[1] \o <<"\n\n">> \o all_evidence[2]

\* C30: a failed search request is never turned into an empty result list:
\* the request that gets no response or an error status raises, and the text
\* 'No search results found.' is returned only after a successful request
\* whose result list is empty.
C30_FailureIsNotZeroResults ==
    Len(atrace) >= 1
        => /\ atrace[1].out \in {"ok", "raise"}
           /\ atrace[1].out = "raise"
                 => apc = "raised" /\ aresult = <<>> /\ search_results = <<>>
           /\ (apc = "done" /\ aresult = <<"No search results found.">>)
                 => atrace[1].out = "ok"

\* the request failed and the invocation was left by the exception
C30_Witness ==
    /\ Len(atrace) = 1
    /\ atrace[1].op = "search"
    /\ atrace[1].out = "raise"
    /\ apc = "raised"

\* C29: a successful scrape returns the page text unchanged when it has at
\* most max_length characters, and its first max_length characters followed
\* by the truncation marker when it is longer; scrape never raises: a failure
\* gives success = false with the error message.
C29_ScrapeTruncates ==
    \A i \in 1..Len(sc_calls) :
        LET c == sc_calls[i]
            page == c.outcome.markdown
        IN  IF c.outcome.ok
            THEN /\ c.result.success
                 /\ c.result.error = None
                 /\ c.result.markdown
                       = IF Len(page) > c.max_length
                         THEN SubSeq(page, 1, c.max_length)
                                 \o <<"\n\n[Content truncated...]">>
                         ELSE page
            ELSE /\ ~c.result.success
                 /\ c.result.error = c.outcome.error
                 /\ c.result.error # None
                 /\ c.result.markdown = <<>>

\* a page of three characters cut to two, and the marker
C29_Witness ==
    /\ Len(sc_calls) >= 1
    /\ sc_calls[1].outcome.markdown = <<"a", "b", "a">>
    /\ sc_calls[1].max_length = 2
    /\ sc_calls[1].result.markdown = <<"a", "b", "\n\n[Content truncated...]">>

\* C25: batch evaluation drops no statement: when it has finished, the list of
\* predictions has one entry per input example, in input order, and the entry
\* of every example whose pipeline run failed is the marker 'ERROR'.
C25_NoExampleDropped ==
    bpc = "done" =>
        /\ Len(predictions) = Len(bexamples)
        /\ Len(ground_truth) = Len(bexamples)
        /\ \A i \in 1..Len(bexamples) :
              /\ ground_truth[i] = bexamples[i].label
              /\ bfailed[i] => predictions[i] = "ERROR"

\* C31: the claim_details of the aggregation result hold, for each Judgment
\* and in the same order, that Judgment's claim, verdict and evidence_summary,
\* whatever the aggregation Oracle answered.
C31_ClaimDetailsEchoJudgments ==
    ppc = "done" =>
        /\ presult.claim_results = claim_results
        /\ Len(aggregation.claim_details) = Len(claim_results)
        /\ \A i \in 1..Len(claim_results) :
              LET d == aggregation.claim_details[i]
                  r == claim_results[i]
              IN  /\ DOMAIN d = {"claim", "verdict", "evidence_summary"}
                  /\ d.claim = r.claim
                  /\ d.verdict = r.verdict
                  /\ d.evidence_summary = r.evidence_summary

\* two Judgments, the first with evidence and the second without
C31_Witness ==
    /\ ppc = "done"
    /\ Len(aggregation.claim_details) = 2
    /\ aggregation.claim_details[1].evidence_summary # <<>>
    /\ aggregation.claim_details[2].evidence_summary = <<>>
    /\ aggregation.claim_details[1].claim # aggregation.claim_details[2].claim

\* C32: every Claim Judge run of the Pipeline starts with empty evidence, an
\* empty search history and iteration 0, and its first Oracle judgment call
\* receives empty evidence and an empty search history, whatever the earlier
\* runs of the same Claim Judge did.
C32_RunStartsEmpty ==
    /\ (ppc = "judge" /\ jpc = "judge" /\ judge_calls = <<>>) =>
           /\ evidence = <<>>
           /\ search_history = <<>>
           /\ iteration = 0
    /\ Len(judge_calls) >= 1 =>
           /\ judge_calls[1].evidence = <<>>
           /\ judge_calls[1].search_history = <<>>

\* the second run issues the query the first run has already used
C32_Witness ==
    /\ ppc = "judge"
    /\ Len(claim_results) = 1
    /\ Len(claim_results[1].search_queries) = 1
    /\ claim_results[1].evidence_summary # <<>>
    /\ Len(judge_calls) = 1
    /\ research_calls = claim_results[1].search_queries

\* C33: the Pipeline runs the Claim Judge once per extracted claim, in
\* extraction order: the returned Judgments are as many as the extracted
\* claims and the i-th Judgment is about the i-th claim.
C33_OneJudgmentPerClaim ==
    ppc = "done" =>
        /\ Len(presult.claim_results) = Len(claims)
        /\ \A i \in 1..Len(claims) : presult.claim_results[i].claim = claims[i]

\* C34: when the Oracle returns a verdict together with a new next_search, the
\* verdict wins: that call is the last of the run, the run ends with that
\* verdict, the query is not added to the search history and the Research
\* Agent is not invoked for it.
C34_VerdictBeatsQuery ==
    \A k \in 1..Len(judge_calls) :
        LET c == judge_calls[k]
        IN  (/\ c.verdict \in Verdicts
             /\ c.next_search # None
             /\ ~InHistory(c.next_search, c.search_history)) =>
                /\ k = Len(judge_calls)
                /\ jpc = "done"
                /\ apc = "idle"
                /\ jresult.verdict = c.verdict
                /\ jresult.iterations = k
                /\ jresult.search_queries = c.search_history
                /\ search_history = c.search_history
                /\ research_calls = c.search_history

\* second round: a verdict and a query not yet used come together
C34_Witness ==
    /\ jpc = "done"
    /\ Len(judge_calls) = 2
    /\ judge_calls[2].verdict = "refuted"
    /\ judge_calls[2].next_search # None
    /\ judge_calls[2].search_history # <<>>
    /\ ~InHistory(judge_calls[2].next_search, judge_calls[2].search_history)

\* the URLs the page selections of a trace have returned, in order
RECURSIVE SelectedIn(_)
SelectedIn(trace) ==
    IF Len(trace) = 0 THEN <<>>
    ELSE LET c == trace[Len(trace)]
             before == SelectedIn(SubSeq(trace, 1, Len(trace) - 1))
         IN  IF c.op = "select" /\ c.out = "ok" /\ c.arg # None
             THEN Append(before, c.arg)
             ELSE before

\* C35: every page-selection call of a Research Agent invocation is given, as
\* visited URLs, exactly the URLs selected by the earlier selections of this
\* invocation (fetched successfully or not), and as current evidence exactly
\* the blocks those visits produced, joined by newlines.
C35_SelectionSeesHistory ==
    \A i \in 1..Len(atrace) :
        atrace[i].op = "select" =>
            LET before == SubSeq(atrace, 1, i - 1)
            IN  /\ atrace[i].visited_urls = SelectedIn(before)
                /\ atrace[i].current_evidence
                      = Join(BlocksOf(before), "\n")

\* a third selection, after one failed and one successful fetch
C35_Witness ==
    /\ CountOp(atrace, "select") = 3
    /\ atrace[Len(atrace)].op = "select"
    /\ Len(atrace[Len(atrace)].visited_urls) = 2
    /\ \E i \in 1..Len(atrace) : FailedScrape(atrace[i])
    /\ \E i \in 1..Len(atrace) : atrace[i].op = "summarize"

\* the URLs fetched by the scrape calls of a trace, in order
RECURSIVE FetchedIn(_)
FetchedIn(trace) ==
    IF Len(trace) = 0 THEN <<>>
    ELSE LET c == trace[Len(trace)]
             before == FetchedIn(SubSeq(trace, 1, Len(trace) - 1))
         IN  IF c.op = "scrape" THEN Append(before, c.arg) ELSE before

CountOk(trace, op) ==
    Cardinality({i \in 1..Len(trace) : trace[i].op = op /\ trace[i].out = "ok"})

\* C36: in every state of a Research Agent invocation the page-selection calls
\* are at most max_page_visits; the fetches are, in order, the URLs the
\* selections returned (the last one still to be fetched right after its
\* selection); there is one summarization call per successful fetch (the last
\* one still to come right after the fetch); and a failed fetch has used up
\* its turn: fetches, failed or not, never outnumber the selections.
C36_VisitCounters ==
    /\ CountOp(atrace, "select") <= max_page_visits
    /\ page_iter = CountOk(atrace, "select")
    /\ FetchedIn(atrace)
          = IF apc = "scrape"
            THEN SubSeq(SelectedIn(atrace), 1, Len(SelectedIn(atrace)) - 1)
            ELSE SelectedIn(atrace)
    /\ CountOp(atrace, "summarize")
          = CountOk(atrace, "scrape") - (IF apc = "summarize" THEN 1 ELSE 0)
    /\ CountOp(atrace, "scrape") <= CountOp(atrace, "select")

\* the whole budget of three visits went into failed fetches
C36_Witness ==
    /\ apc = "done"
    /\ max_page_visits = 3
    /\ CountOp(atrace, "select") = 3
    /\ CountOp(atrace, "scrape") = 3
    /\ CountOk(atrace, "scrape") = 0
    /\ CountOp(atrace, "summarize") = 0

\* the queries of the query-tagged blocks of an evidence text, in order
RECURSIVE TaggedQueries(_)
TaggedQueries(text) ==
    IF Len(text) < 2 THEN <<>>
    ELSE IF text[1] = "\n\n--- Search: "
         THEN <<text[2]>> \o TaggedQueries(SubSeq(text, 3, Len(text)))
         ELSE TaggedQueries(Tail(text))

\* C37: in every state of a Claim Judge run the Research Agent has been invoked
\* once per entry of the search history, in that order; the evidence holds one
\* query-tagged block per invocation that has returned, in the order of the
\* queries (the invocation under way, or left by an exception, has none yet);
\* the invocations are never more than the Oracle judgment calls made so far;
\* and a Judgment that ends with the Oracle's verdict of round k has at most
\* k - 1 search queries.
C37_ResearchMatchesHistory ==
    /\ research_calls = search_history
    /\ TaggedQueries(evidence)
          = SubSeq(search_history, 1, Len(research_results))
    /\ Len(research_results) <= Len(search_history)
    /\ Len(search_history) - Len(research_results) <= 1
    /\ Len(research_results) < Len(search_history)
          => jpc \in {"research", "raised"}
    /\ Len(search_history) <= Len(judge_calls)
    /\ (jpc = "done" /\ judge_calls # <<>>
           /\ judge_calls[Len(judge_calls)].verdict \in Verdicts)
          => /\ jresult.iterations = Len(judge_calls)
             /\ Len(jresult.search_queries) <= Len(judge_calls) - 1
             /\ TaggedQueries(jresult.evidence_summary) = jresult.search_queries

\* a verdict in round 3 after two researched queries
C37_Witness ==
    /\ jpc = "done"
    /\ Len(judge_calls) = 3
    /\ judge_calls[3].verdict = "supported"
    /\ Len(jresult.search_queries) = 2
    /\ TaggedQueries(jresult.evidence_summary) = jresult.search_queries

\* C38: every evidence block of a Judgment's evidence_summary was in the
\* evidence input of some Oracle judgment call of the run, and the Research
\* Agent is never invoked in a round that no judgment call follows, the round
\* max_iterations in particular.
C38_EvidenceWasJudged ==
    /\ jpc = "research" => iteration + 1 < max_iterations
    /\ jpc = "done" =>
          \/ jresult.evidence_summary = <<>>
          \/ \E k \in 1..Len(judge_calls) :
                IsPrefix(jresult.evidence_summary, judge_calls[k].evidence)

\* Oracle judgment calls and searches of the Claim Judge runs that returned
RECURSIVE RoundsOf(_)
RoundsOf(results) ==
    IF Len(results) = 0 THEN 0
    ELSE results[1].iterations + RoundsOf(Tail(results))

RECURSIVE SearchesOf(_)
SearchesOf(results) ==
    IF Len(results) = 0 THEN 0
    ELSE Len(results[1].search_queries) + SearchesOf(Tail(results))

\* C39: a Pipeline run over n extracted claims starts at most n Claim Judge
\* runs and makes at most n * max_judge_iterations Oracle judgment calls and
\* at most n * max_judge_iterations search calls (the runs that returned plus
\* the run under way).
C39_CostWithinBudget ==
    LET n == Len(claims)
    IN  ppc \in {"loop", "judge", "done", "raised"} =>
           /\ Len(claim_results) + (IF jpc = "idle" THEN 0 ELSE 1) <= n
           /\ RoundsOf(claim_results) + Len(judge_calls) <= n * max_iterations
           /\ SearchesOf(claim_results) + Len(research_calls)
                 <= n * max_iterations

\* C40: during batch evaluation the scrape requests in flight are never more
\* than num_threads, and num_threads is not above the scrape provider's
\* concurrent-request ceiling.
C40_ScrapesWithinCeiling ==
    (workers # <<>> /\ Active(workers) > 0) =>
        /\ InFlight(workers) <= num_threads
        /\ num_threads <= firecrawl_limit

====
